---- MODULE Spec2Model ----
(***************************************************************************)
(* Verification model of the scattering models of src/swan/bsdf.hpp:       *)
(* FresnelDielectric, CosineWeightedHemisphere, DiffuseBSDF, ReflectBSDF   *)
(* and RefractBSDF, and of the process-wide random generator they share.   *)
(*                                                                         *)
(* A double is modelled by an exact number <<n, d, m>> that stands for     *)
(* (n/d)*sqrt(m), with m squarefree.  d = 0 gives the IEEE specials:       *)
(* <<1,0,1>> is +inf, <<-1,0,1>> is -inf and <<0,0,1>> is NaN.  Arithmetic *)
(* is real arithmetic without rounding; a sum of two incommensurable       *)
(* surds is not representable and yields Irr, and the operations are only  *)
(* invoked on inputs whose results are representable.                      *)
(***************************************************************************)
EXTENDS Integers, Sequences, FiniteSets

\* ------------------------------------------------------------------------
\* Bounds of the input grids.
\* ------------------------------------------------------------------------
MaxDen == 6          \* directions are the rational unit vectors k/d, d <= MaxDen
MaxEta == 5          \* refractive indices are n/1 and n/2 with n <= MaxEta
NumWorkers == 2      \* concurrent rendering workers

\* ------------------------------------------------------------------------
\* double arithmetic
\* ------------------------------------------------------------------------
AbsI(i) == IF i < 0 THEN 0 - i ELSE i

SgnI(i) == IF i < 0 THEN 0 - 1 ELSE IF i = 0 THEN 0 ELSE 1

RECURSIVE GCD(_, _)
GCD(a, b) == IF b = 0 THEN a ELSE GCD(b, a % b)

\* <<s, k>> with n = s*s*k and k squarefree, found by stripping square factors
RECURSIVE Strip(_, _, _)
Strip(n, p, s) ==
    IF p * p > n THEN <<s, n>>
    ELSE IF n % (p * p) = 0 THEN Strip(n \div (p * p), p, s * p)
    ELSE Strip(n, p + 1, s)

NaN == <<0, 0, 1>>

Inf == <<1, 0, 1>>

Irr == <<0, 0, 0>>

Zero == <<0, 1, 1>>

One == <<1, 1, 1>>

\* the canonical number (n/d)*sqrt(m), for integers n, d and squarefree m >= 1
Mk(n, d, m) ==
    IF d = 0 THEN <<SgnI(n), 0, 1>>
    ELSE IF n = 0 THEN Zero
    ELSE LET g == GCD(AbsI(n), AbsI(d))
             s == SgnI(d)
         IN  <<(s * n) \div g, (s * d) \div g, m>>

Q(n, d) == Mk(n, d, 1)

IsIrr(x) == x[3] = 0

IsNaN(x) == x = NaN

IsFinite(x) == x[2] > 0

Neg(x) == IF IsIrr(x) THEN Irr ELSE <<0 - x[1], x[2], x[3]>>

Abs(x) == IF IsIrr(x) THEN Irr ELSE <<AbsI(x[1]), x[2], x[3]>>

Mul(x, y) ==
    IF IsIrr(x) \/ IsIrr(y) THEN Irr
    ELSE LET g1 == IF x[1] = 0 \/ y[2] = 0 THEN 1 ELSE GCD(AbsI(x[1]), y[2])
             g2 == IF y[1] = 0 \/ x[2] = 0 THEN 1 ELSE GCD(AbsI(y[1]), x[2])
             g  == GCD(x[3], y[3])
             n  == (x[1] \div g1) * (y[1] \div g2) * g
             d  == (x[2] \div g2) * (y[2] \div g1)
         IN  Mk(n, d, (x[3] \div g) * (y[3] \div g))

\* 1/x: 1/((n/d)*sqrt(m)) = (d/(n*m))*sqrt(m); 1/0 is +inf, 1/inf is 0
Recip(x) == IF IsIrr(x) THEN Irr ELSE Mk(x[2], x[1] * x[3], x[3])

Div(x, y) == Mul(x, Recip(y))

Add(x, y) ==
    IF IsIrr(x) \/ IsIrr(y) THEN Irr
    ELSE IF IsNaN(x) \/ IsNaN(y) THEN NaN
    ELSE IF x[2] = 0 /\ y[2] = 0 THEN (IF x = y THEN x ELSE NaN)
    ELSE IF x[2] = 0 THEN x
    ELSE IF y[2] = 0 THEN y
    ELSE IF x[1] = 0 THEN y
    ELSE IF y[1] = 0 THEN x
    ELSE IF x[3] # y[3] THEN Irr
    ELSE LET g == GCD(x[2], y[2])
             l == (x[2] \div g) * y[2]
         IN  Mk(x[1] * (l \div x[2]) + y[1] * (l \div y[2]), l, x[3])

Sub(x, y) == Add(x, Neg(y))

\* x < y; false when either side is NaN.  Signs decide first; numbers with
\* different surds are compared by their squares.
Lt(x, y) ==
    IF IsIrr(x) \/ IsIrr(y) \/ IsNaN(x) \/ IsNaN(y) THEN FALSE
    ELSE IF x[2] = 0 \/ y[2] = 0
         THEN (x # y) /\ (x = Neg(Inf) \/ y = Inf)
    ELSE LET sx == SgnI(x[1])
             sy == SgnI(y[1])
             lx == x[1] * x[1] * x[3] * y[2] * y[2]
             ly == y[1] * y[1] * y[3] * x[2] * x[2]
         IN  IF sx # sy THEN sx < sy
             ELSE IF sx = 0 THEN FALSE
             ELSE IF x[3] = y[3] THEN x[1] * y[2] < y[1] * x[2]
             ELSE IF sx > 0 THEN lx < ly
             ELSE ly < lx

\* x >= y; false when either side is NaN
Ge(x, y) ==
    /\ ~(IsIrr(x) \/ IsIrr(y) \/ IsNaN(x) \/ IsNaN(y))
    /\ ~Lt(x, y)

Le(x, y) == Ge(y, x)

\* std::max(a, b) is (a < b) ? b : a
Max(a, b) == IF Lt(a, b) THEN b ELSE a

\* std::sqrt of a rational: sqrt(n/d) = (s1/(s2*k2))*sqrt(k1*k2)
Sqrt(x) ==
    IF IsIrr(x) \/ x[3] # 1 THEN Irr
    ELSE IF IsNaN(x) \/ x[1] < 0 THEN NaN
    ELSE IF x[2] = 0 THEN Inf
    ELSE IF x[1] = 0 THEN Zero
    ELSE LET a == Strip(x[1], 2, 1)
             b == Strip(x[2], 2, 1)
         IN  Mk(a[1], b[1] * b[2], a[2] * b[2])

\* ------------------------------------------------------------------------
\* constant.hpp, vector.hpp (Vector, Spectrum)
\* ------------------------------------------------------------------------
PI == Q(355, 113)

INV_PI == Recip(PI)

Vector(x, y, z) == <<x, y, z>>

\* Vector * double, Spectrum * double
VScale(v, s) == <<Mul(v[1], s), Mul(v[2], s), Mul(v[3], s)>>

\* Spectrum / double
VDiv(v, s) == <<Div(v[1], s), Div(v[2], s), Div(v[3], s)>>

VAdd(u, v) == <<Add(u[1], v[1]), Add(u[2], v[2]), Add(u[3], v[3])>>

Length2(v) == Add(Add(Mul(v[1], v[1]), Mul(v[2], v[2])), Mul(v[3], v[3]))

Length(v) == Sqrt(Length2(v))

Normalize(v) == VDiv(v, Length(v))

\* the default-constructed Spectrum
Spectrum0 == <<Zero, Zero, Zero>>

VIsIrr(v) == IsIrr(v[1]) \/ IsIrr(v[2]) \/ IsIrr(v[3])

VIsFinite(v) == IsFinite(v[1]) /\ IsFinite(v[2]) /\ IsFinite(v[3])

\* ------------------------------------------------------------------------
\* <cmath>: asin, sin, cos.  asin(x) is kept as the angle in [-pi/2, pi/2]
\* whose sine is x; any other angle is a number of radians, and its sine
\* and cosine are taken where they are single surds: at the multiples of
\* 1/8 and 1/12 of a turn.
\* ------------------------------------------------------------------------
Asin(x) == <<"asin", x>>

\* the position of angle phi on the circle, in 24ths of a turn (-1: off grid)
Turn24(phi) ==
    LET t == Mul(Div(phi, Mul(Q(2, 1), PI)), Q(24, 1))
    IN  IF IsIrr(t) \/ t[2] # 1 \/ t[3] # 1 THEN 0 - 1
        ELSE IF (t[1] % 2 # 0) /\ (t[1] % 3 # 0) THEN 0 - 1
        ELSE t[1] % 24

RECURSIVE CosTurn(_)
CosTurn(k) ==
    IF k < 0 THEN Irr
    ELSE IF k > 12 THEN CosTurn(24 - k)
    ELSE IF k > 6 THEN Neg(CosTurn(12 - k))
    ELSE IF k = 0 THEN One
    ELSE IF k = 2 THEN Mk(1, 2, 3)
    ELSE IF k = 3 THEN Mk(1, 2, 2)
    ELSE IF k = 4 THEN Q(1, 2)
    ELSE IF k = 6 THEN Zero
    ELSE Irr

Cos(a) ==
    IF Len(a) = 2 THEN Sqrt(Sub(One, Mul(a[2], a[2])))
    ELSE CosTurn(Turn24(a))

Sin(a) ==
    IF Len(a) = 2 THEN a[2]
    ELSE IF Turn24(a) < 0 THEN Irr
    ELSE CosTurn((Turn24(a) + 18) % 24)

\* ------------------------------------------------------------------------
\* bsdf.hpp
\* ------------------------------------------------------------------------
CosTheta(wi) == wi[3]

AbsCosTheta(wi) == Abs(wi[3])

\* the direction drawn from the two uniform draws u1, u2
CosineWeightedHemisphere(u1, u2) ==
    LET theta == Asin(Sqrt(u1))
        phi   == Mul(Mul(Q(2, 1), PI), u2)
        sini  == Sin(theta)
        cosi  == Cos(theta)
        xs    == Mul(sini, Cos(phi))
        ys    == Mul(sini, Sin(phi))
        zs    == cosi
    IN  Normalize(Vector(xs, ys, zs))

\* FresnelSinT with the ratio of the indices left out of Snell's law
FresnelSinT_NoEta(cosi0, etai0, etat0) ==
    LET swap == Lt(cosi0, Zero)
        cosi == IF swap THEN Neg(cosi0) ELSE cosi0
    IN  Sqrt(Max(Zero, Sub(One, Mul(cosi, cosi))))

\* the local sint of FresnelDielectric, after the swap
FresnelSinT(cosi0, etai0, etat0) ==
    LET swap == Lt(cosi0, Zero)
        etai == IF swap THEN etat0 ELSE etai0
        etat == IF swap THEN etai0 ELSE etat0
        cosi == IF swap THEN Neg(cosi0) ELSE cosi0
        sini == Sqrt(Max(Zero, Sub(One, Mul(cosi, cosi))))
    IN  Mul(Div(etai, etat), sini)

\* FresnelDielectric returning the sum, not the mean, of the two squares
FresnelDielectric_NoHalf(cosi0, etai0, etat0) ==
    LET swap == Lt(cosi0, Zero)
        etai == IF swap THEN etat0 ELSE etai0
        etat == IF swap THEN etai0 ELSE etat0
        cosi == IF swap THEN Neg(cosi0) ELSE cosi0
        sint == FresnelSinT(cosi0, etai0, etat0)
        cost == Sqrt(Max(Zero, Sub(One, Mul(sint, sint))))
        term1 == Mul(etai, cost)
        term2 == Mul(etat, cosi)
        term3 == Mul(etai, cosi)
        term4 == Mul(etat, cost)
        parl == Div(Sub(term2, term1), Add(term2, term1))
        perp == Div(Sub(term3, term4), Add(term3, term4))
    IN  IF Ge(sint, One) THEN One
        ELSE Add(Mul(parl, parl), Mul(perp, perp))

\* FresnelDielectric negating a negative cosine without swapping the indices
FresnelDielectric_NoSwap(cosi0, etai0, etat0) ==
    LET swap == Lt(cosi0, Zero)
        etai == etai0
        etat == etat0
        cosi == IF swap THEN Neg(cosi0) ELSE cosi0
        sini == Sqrt(Max(Zero, Sub(One, Mul(cosi, cosi))))
        sint == Mul(Div(etai, etat), sini)
        cost == Sqrt(Max(Zero, Sub(One, Mul(sint, sint))))
        term1 == Mul(etai, cost)
        term2 == Mul(etat, cosi)
        term3 == Mul(etai, cosi)
        term4 == Mul(etat, cost)
        parl == Div(Sub(term2, term1), Add(term2, term1))
        perp == Div(Sub(term3, term4), Add(term3, term4))
    IN  IF Ge(sint, One) THEN One
        ELSE Mul(Add(Mul(parl, parl), Mul(perp, perp)), Q(1, 2))

FresnelDielectric(cosi0, etai0, etat0) ==
    LET swap == Lt(cosi0, Zero)
        etai == IF swap THEN etat0 ELSE etai0
        etat == IF swap THEN etai0 ELSE etat0
        cosi == IF swap THEN Neg(cosi0) ELSE cosi0
        sint == FresnelSinT(cosi0, etai0, etat0)
        cost == Sqrt(Max(Zero, Sub(One, Mul(sint, sint))))
        term1 == Mul(etai, cost)
        term2 == Mul(etat, cosi)
        term3 == Mul(etai, cosi)
        term4 == Mul(etat, cost)
        parl == Div(Sub(term2, term1), Add(term2, term1))
        perp == Div(Sub(term3, term4), Add(term3, term4))
    IN  IF Ge(sint, One) THEN One
        ELSE Mul(Add(Mul(parl, parl), Mul(perp, perp)), Q(1, 2))

\* DiffuseBSDF::F without the factor 1/pi
DiffuseF_NoInvPi(r_, wo, wi) == r_

DiffuseF(r_, wo, wi) == VScale(r_, INV_PI)

DiffuseSampleF(r_, wo, u1, u2) ==
    LET wi == CosineWeightedHemisphere(u1, u2)
    IN  [wi |-> wi, pdf |-> Mul(CosTheta(wi), INV_PI), value |-> DiffuseF(r_, wo, wi)]

ReflectF(r_, wo, wi) == Spectrum0

ReflectSampleF(r_, wo) ==
    LET wi == Vector(Neg(wo[1]), Neg(wo[2]), wo[3])
    IN  [wi |-> wi, pdf |-> One, value |-> VScale(r_, Div(One, CosTheta(wi)))]

RefractF(r_, wo, wi) == Spectrum0

\* RefractBSDF::SampleF refracting also at the critical angle (sint <= 1)
RefractSampleF_AtCritical(r_, etai_, etat_, wo) ==
    LET entering == Lt(CosTheta(wo), Zero)
        etai == IF entering THEN etai_ ELSE etat_
        etat == IF entering THEN etat_ ELSE etai_
        eta  == Div(etai, etat)
        cosi == AbsCosTheta(wo)
        sini == Max(Zero, Sub(One, Mul(cosi, cosi)))
        sint == Mul(Mul(eta, eta), sini)
        cost == Sqrt(Sub(One, sint))
        term1 == Mul(etai, cost)
        term2 == Mul(etat, cosi)
        term3 == Mul(etai, cosi)
        term4 == Mul(etat, cost)
        parl == Div(Sub(term2, term1), Add(term2, term1))
        perp == Div(Sub(term3, term4), Add(term3, term4))
        re   == Mul(Add(Mul(parl, parl), Mul(perp, perp)), Q(1, 2))
        k    == Mul(Sub(Mul(eta, cosi), cost), IF entering THEN Q(0 - 1, 1) ELSE One)
        wir  == Normalize(VAdd(VScale(wo, eta), VScale(Vector(Zero, Zero, One), k)))
        wim  == Vector(Neg(wo[1]), Neg(wo[2]), wo[3])
        re0  == One
    IN  IF Le(sint, One)
        THEN [wi |-> wir, pdf |-> Sub(One, re),
              value |-> VDiv(VScale(r_, Sub(One, re)), AbsCosTheta(wir)),
              re |-> re, branch |-> "refract"]
        ELSE [wi |-> wim, pdf |-> re0,
              value |-> VDiv(VScale(r_, re0), AbsCosTheta(wim)),
              re |-> re0, branch |-> "reflect"]

\* re and the branch taken are locals of the function, kept in the result
RefractSampleF(r_, etai_, etat_, wo) ==
    LET entering == Lt(CosTheta(wo), Zero)
        etai == IF entering THEN etai_ ELSE etat_
        etat == IF entering THEN etat_ ELSE etai_
        eta  == Div(etai, etat)
        cosi == AbsCosTheta(wo)
        sini == Max(Zero, Sub(One, Mul(cosi, cosi)))
        sint == Mul(Mul(eta, eta), sini)
        cost == Sqrt(Sub(One, sint))
        term1 == Mul(etai, cost)
        term2 == Mul(etat, cosi)
        term3 == Mul(etai, cosi)
        term4 == Mul(etat, cost)
        parl == Div(Sub(term2, term1), Add(term2, term1))
        perp == Div(Sub(term3, term4), Add(term3, term4))
        re   == Mul(Add(Mul(parl, parl), Mul(perp, perp)), Q(1, 2))
        k    == Mul(Sub(Mul(eta, cosi), cost), IF entering THEN Q(0 - 1, 1) ELSE One)
        wir  == Normalize(VAdd(VScale(wo, eta), VScale(Vector(Zero, Zero, One), k)))
        wim  == Vector(Neg(wo[1]), Neg(wo[2]), wo[3])
        re0  == One
    IN  IF Lt(sint, One)
        THEN [wi |-> wir, pdf |-> Sub(One, re),
              value |-> VDiv(VScale(r_, Sub(One, re)), AbsCosTheta(wir)),
              re |-> re, branch |-> "refract"]
        ELSE [wi |-> wim, pdf |-> re0,
              value |-> VDiv(VScale(r_, re0), AbsCosTheta(wim)),
              re |-> re0, branch |-> "reflect"]

\* ------------------------------------------------------------------------
\* State
\* ------------------------------------------------------------------------
VARIABLES
    bsdf,        \* the constructed scattering model: kind, r_, etai_, etat_
    call,        \* the last call made by the sequential caller, with its result
    fcall,       \* the last call of FresnelDielectric, with its result
    generator,   \* state of the static random engine
    pc,          \* per worker: position inside DiffuseBSDF::SampleF
    ld,          \* per worker: the engine state it loaded
    u1,          \* per worker: its first uniform draw
    res          \* per worker: the result of its call

vars == <<bsdf, call, fcall, generator, pc, ld, u1, res>>

GenPeriod == 3       \* number of states of the random engine

Workers == 1..NumWorkers

\* ------------------------------------------------------------------------
\* Inputs
\* ------------------------------------------------------------------------
Reflectances == {<<One, One, One>>, <<One, Q(1, 2), Zero>>}

Etas == {Q(n, d) : n \in 1..MaxEta, d \in 1..2}

\* the unit vectors with rational components of denominator at most MaxDen
Directions ==
    UNION {{<<Q(t[1], d), Q(t[2], d), Q(t[3], d)>> :
                t \in {t \in (0 - d..d) \X (0 - d..d) \X (0 - d..d) :
                          t[1] * t[1] + t[2] * t[2] + t[3] * t[3] = d * d}} :
           d \in 1..MaxDen}

AxisDirections == {w \in Directions : w[1][2] = 1 /\ w[2][2] = 1 /\ w[3][2] = 1}

Cosines == {Q(n, d) : n \in (0 - MaxDen)..MaxDen, d \in 1..MaxDen} \cap
           {c \in {Q(n, d) : n \in (0 - MaxDen)..MaxDen, d \in 1..MaxDen} :
               Le(Q(0 - 1, 1), c) /\ Le(c, One)}

\* values of [0, 1) at which sin and cos of 2*pi*u are single surds
Uniforms == {Q(k, 24) : k \in {k \in 0..23 : k % 2 = 0 \/ k % 3 = 0}}

\* the draws and the argument used by the concurrent workers
CoarseUniforms == {Q(1, 3), Q(5, 8)}

NormalDirections == {w \in AxisDirections : w[3] = One}

RepSample(s) == ~VIsIrr(s.wi) /\ ~IsIrr(s.pdf) /\ ~VIsIrr(s.value) /\ ~IsIrr(s.re)

\* ------------------------------------------------------------------------
\* Init: the static generator is seeded with time(0); nothing is built yet
\* ------------------------------------------------------------------------
Init ==
    /\ bsdf = [kind |-> "none"]
    /\ call = [op |-> "none"]
    /\ fcall = [op |-> "none"]
    /\ generator \in 0..(GenPeriod - 1)
    /\ pc = [w \in Workers |-> "idle"]
    /\ ld = [w \in Workers |-> 0]
    /\ u1 = [w \in Workers |-> Zero]
    /\ res = [w \in Workers |-> [op |-> "none"]]

\* the engine's transition function
EngineStep(g) == (g + 1) % GenPeriod

\* ------------------------------------------------------------------------
\* Factories
\* ------------------------------------------------------------------------
NewDiffuseBSDF(r) ==
    /\ bsdf.kind = "none"
    /\ bsdf' = [kind |-> "Diffuse", r_ |-> r]
    /\ UNCHANGED <<call, fcall, generator, pc, ld, u1, res>>

NewReflectBSDF(r) ==
    /\ bsdf.kind = "none"
    /\ bsdf' = [kind |-> "Reflect", r_ |-> r]
    /\ UNCHANGED <<call, fcall, generator, pc, ld, u1, res>>

NewRefractBSDF(r, etai, etat) ==
    /\ bsdf.kind = "none"
    /\ bsdf' = [kind |-> "Refract", r_ |-> r, etai_ |-> etai, etat_ |-> etat]
    /\ UNCHANGED <<call, fcall, generator, pc, ld, u1, res>>

\* ------------------------------------------------------------------------
\* Calls of the sequential caller
\* ------------------------------------------------------------------------
CallFresnelDielectric(c, a, b) ==
    /\ fcall.op = "none"
    /\ ~IsIrr(FresnelDielectric(c, a, b))
    /\ fcall' = [op |-> "FresnelDielectric", cosi |-> c, etai |-> a, etat |-> b,
                 ret |-> FresnelDielectric(c, a, b)]
    /\ UNCHANGED <<bsdf, call, generator, pc, ld, u1, res>>

CallDiffuseF(wo, wi) ==
    /\ call.op = "none"
    /\ bsdf.kind = "Diffuse"
    /\ call' = [op |-> "F", wo |-> wo, wi |-> wi, ret |-> DiffuseF(bsdf.r_, wo, wi)]
    /\ UNCHANGED <<bsdf, fcall, generator, pc, ld, u1, res>>

CallDiffuseSampleF(wo, a, b) ==
    /\ call.op = "none"
    /\ bsdf.kind = "Diffuse"
    /\ ~VIsIrr(DiffuseSampleF(bsdf.r_, wo, a, b).wi)
    /\ call' = [op |-> "SampleF", wo |-> wo, ua |-> a, ub |-> b,
                ret |-> DiffuseSampleF(bsdf.r_, wo, a, b)]
    /\ generator' = EngineStep(EngineStep(generator))
    /\ UNCHANGED <<bsdf, fcall, pc, ld, u1, res>>

CallReflectF(wo, wi) ==
    /\ call.op = "none"
    /\ bsdf.kind = "Reflect"
    /\ call' = [op |-> "F", wo |-> wo, wi |-> wi, ret |-> ReflectF(bsdf.r_, wo, wi)]
    /\ UNCHANGED <<bsdf, fcall, generator, pc, ld, u1, res>>

CallReflectSampleF(wo) ==
    /\ call.op = "none"
    /\ bsdf.kind = "Reflect"
    /\ call' = [op |-> "SampleF", wo |-> wo, ret |-> ReflectSampleF(bsdf.r_, wo)]
    /\ UNCHANGED <<bsdf, fcall, generator, pc, ld, u1, res>>

CallRefractF(wo, wi) ==
    /\ call.op = "none"
    /\ bsdf.kind = "Refract"
    /\ call' = [op |-> "F", wo |-> wo, wi |-> wi, ret |-> RefractF(bsdf.r_, wo, wi)]
    /\ UNCHANGED <<bsdf, fcall, generator, pc, ld, u1, res>>

CallRefractSampleF(wo) ==
    /\ call.op = "none"
    /\ bsdf.kind = "Refract"
    /\ RepSample(RefractSampleF(bsdf.r_, bsdf.etai_, bsdf.etat_, wo))
    /\ call' = [op |-> "SampleF", wo |-> wo,
                ret |-> RefractSampleF(bsdf.r_, bsdf.etai_, bsdf.etat_, wo)]
    /\ UNCHANGED <<bsdf, fcall, generator, pc, ld, u1, res>>

\* the caller takes the result; the next call can start
Return ==
    /\ call.op # "none"
    /\ call' = [op |-> "none"]
    /\ UNCHANGED <<bsdf, fcall, generator, pc, ld, u1, res>>

FresnelReturn ==
    /\ fcall.op # "none"
    /\ fcall' = [op |-> "none"]
    /\ UNCHANGED <<bsdf, call, generator, pc, ld, u1, res>>

\* ------------------------------------------------------------------------
\* Workers calling DiffuseBSDF::SampleF concurrently.  Each of the two
\* distribution(generator) calls loads the engine state and then stores the
\* advanced state; nothing orders the loads and stores of different workers.
\* ------------------------------------------------------------------------
WLoad1(w) ==
    /\ bsdf.kind = "Diffuse"
    /\ pc[w] = "idle"
    /\ ld' = [ld EXCEPT ![w] = generator]
    /\ pc' = [pc EXCEPT ![w] = "in1"]
    /\ UNCHANGED <<bsdf, call, fcall, generator, u1, res>>

WStore1(w, u) ==
    /\ pc[w] = "in1"
    /\ generator' = EngineStep(ld[w])
    /\ u1' = [u1 EXCEPT ![w] = u]
    /\ ld' = [ld EXCEPT ![w] = 0]
    /\ pc' = [pc EXCEPT ![w] = "mid"]
    /\ UNCHANGED <<bsdf, call, fcall, res>>

WLoad2(w) ==
    /\ pc[w] = "mid"
    /\ ld' = [ld EXCEPT ![w] = generator]
    /\ pc' = [pc EXCEPT ![w] = "in2"]
    /\ UNCHANGED <<bsdf, call, fcall, generator, u1, res>>

WStore2(w, u, wo) ==
    /\ pc[w] = "in2"
    /\ ~VIsIrr(DiffuseSampleF(bsdf.r_, wo, u1[w], u).wi)
    /\ generator' = EngineStep(ld[w])
    /\ res' = [res EXCEPT ![w] = [op |-> "SampleF", wo |-> wo, ua |-> u1[w], ub |-> u,
                                  ret |-> DiffuseSampleF(bsdf.r_, wo, u1[w], u)]]
    /\ u1' = [u1 EXCEPT ![w] = Zero]
    /\ ld' = [ld EXCEPT ![w] = 0]
    /\ pc' = [pc EXCEPT ![w] = "ret"]
    /\ UNCHANGED <<bsdf, call, fcall>>

WReturn(w) ==
    /\ pc[w] = "ret"
    /\ res' = [res EXCEPT ![w] = [op |-> "none"]]
    /\ pc' = [pc EXCEPT ![w] = "idle"]
    /\ UNCHANGED <<bsdf, call, fcall, generator, ld, u1>>

\* ------------------------------------------------------------------------
\* Specifications
\* ------------------------------------------------------------------------
\* the free function FresnelDielectric
NextFresnel ==
    \/ \E c \in Cosines, a \in Etas, b \in Etas : CallFresnelDielectric(c, a, b)
    \/ FresnelReturn

SpecFresnel == Init /\ [][NextFresnel]_vars

\* one caller using a scattering model
Next ==
    \/ \E r \in Reflectances : NewDiffuseBSDF(r)
    \/ \E r \in Reflectances : NewReflectBSDF(r)
    \/ \E r \in Reflectances, a \in Etas, b \in Etas : NewRefractBSDF(r, a, b)
    \/ \E wo \in Directions, wi \in AxisDirections : CallDiffuseF(wo, wi)
    \/ \E wo \in AxisDirections, a \in Uniforms, b \in Uniforms : CallDiffuseSampleF(wo, a, b)
    \/ \E wo \in NormalDirections, wi \in AxisDirections : CallReflectF(wo, wi)
    \/ \E wo \in Directions : CallReflectSampleF(wo)
    \/ \E wo \in NormalDirections, wi \in AxisDirections : CallRefractF(wo, wi)
    \/ \E wo \in Directions : CallRefractSampleF(wo)
    \/ Return

Spec == Init /\ [][Next]_vars

\* several workers sharing one diffuse model and the static generator
NextWorkers ==
    \/ \E r \in Reflectances : NewDiffuseBSDF(r)
    \/ \E w \in Workers : WLoad1(w)
    \/ \E w \in Workers, u \in CoarseUniforms : WStore1(w, u)
    \/ \E w \in Workers : WLoad2(w)
    \/ \E w \in Workers, u \in CoarseUniforms, wo \in NormalDirections : WStore2(w, u, wo)
    \/ \E w \in Workers : WReturn(w)

SpecWorkers == Init /\ [][NextWorkers]_vars

\* ------------------------------------------------------------------------
\* Properties
\* ------------------------------------------------------------------------
Sampled(kind) == call.op = "SampleF" /\ bsdf.kind = kind

Mirror(wo) == <<Neg(wo[1]), Neg(wo[2]), wo[3]>>

\* C1: for every wo, also with wo.z < 0, ReflectBSDF::SampleF returns the
\* mirrored direction wi = (-wo.x, -wo.y, wo.z), pdf = 1 and the value
\* reflectance / |wi.z|.
C1_ReflectValueOverAbsCos ==
    Sampled("Reflect") =>
        /\ call.ret.wi = Mirror(call.wo)
        /\ call.ret.pdf = One
        /\ call.ret.value = VDiv(bsdf.r_, Abs(call.ret.wi[3]))

\* C2: with equal refractive indices FresnelDielectric(c, a, a) is 0 for
\* every cosine c in [-1, 1], the grazing cosine c = 0 included.
C2_EqualIndicesNoReflection ==
    (fcall.op = "FresnelDielectric" /\ fcall.etai = fcall.etat) => fcall.ret = Zero

\* C3: RefractBSDF(etai = 1, etat = 3/2) sampled at wo = (0, 0, -1) refracts
\* with re = 1/25, returns pdf = 24/25 and a direction wi with wi.z > 0.
C3_NormalIncidenceIntoPlusZ ==
    (/\ Sampled("Refract")
     /\ bsdf.etai_ = One
     /\ bsdf.etat_ = Q(3, 2)
     /\ call.wo = <<Zero, Zero, Q(0 - 1, 1)>>) =>
        /\ call.ret.branch = "refract"
        /\ call.ret.re = Q(1, 25)
        /\ call.ret.pdf = Q(24, 25)
        /\ Lt(Zero, call.ret.wi[3])

\* C4: every value returned by ReflectBSDF::SampleF and RefractBSDF::SampleF
\* is finite (no division by zero), and so is every result of
\* FresnelDielectric.
C4_AlwaysFinite ==
    /\ (Sampled("Reflect") \/ Sampled("Refract")) =>
           /\ VIsFinite(call.ret.value)
           /\ VIsFinite(call.ret.wi)
           /\ IsFinite(call.ret.pdf)
    /\ (fcall.op = "FresnelDielectric") => IsFinite(fcall.ret)

\* C5: no two workers are between the load and the store of the generator
\* state at the same time.
C5_GeneratorAccessExclusive ==
    \A v \in Workers, w \in Workers :
        (v # w) => ~(pc[v] \in {"in1", "in2"} /\ pc[w] \in {"in1", "in2"})

\* C6: FresnelDielectric(c, a, b) lies in [0, 1], and is exactly 1 whenever
\* sint, computed after the swap, is at least 1.
C6_FresnelRange ==
    (fcall.op = "FresnelDielectric") =>
        /\ Le(Zero, fcall.ret)
        /\ Le(fcall.ret, One)
        /\ Ge(FresnelSinT(fcall.cosi, fcall.etai, fcall.etat), One) => fcall.ret = One

C6_Witness ==
    /\ fcall.op = "FresnelDielectric"
    /\ Lt(fcall.cosi, Zero)
    /\ Ge(FresnelSinT(fcall.cosi, fcall.etai, fcall.etat), One)
    /\ fcall.ret = One

\* C7: FresnelDielectric(c, a, b) equals FresnelDielectric(-c, b, a) for
\* every cosine c, zero included, and every pair of indices.
C7_FresnelSymmetry ==
    (fcall.op = "FresnelDielectric") =>
        fcall.ret = FresnelDielectric(Neg(fcall.cosi), fcall.etat, fcall.etai)

C7_Witness ==
    /\ fcall.op = "FresnelDielectric"
    /\ Lt(fcall.cosi, Zero)
    /\ fcall.etai # fcall.etat
    /\ Lt(Zero, fcall.ret)
    /\ Lt(fcall.ret, One)

\* the incident-side and transmitted-side index of a RefractBSDF for wo
EtaIncident(wo) == IF Lt(wo[3], Zero) THEN bsdf.etai_ ELSE bsdf.etat_

EtaTransmitted(wo) == IF Lt(wo[3], Zero) THEN bsdf.etat_ ELSE bsdf.etai_

\* eta^2 * sin^2(Incident) >= 1
BeyondCritical(wo) ==
    LET eta  == Div(EtaIncident(wo), EtaTransmitted(wo))
        sin2 == Max(Zero, Sub(One, Mul(wo[3], wo[3])))
    IN  Ge(Mul(Mul(eta, eta), sin2), One)

\* C8: RefractBSDF::SampleF reflects exactly when eta^2 * sin^2(Incident)
\* >= 1; then wi is the mirrored direction, pdf = re = 1 and value =
\* reflectance * re / |wi.z|; otherwise it refracts and pdf = 1 - re.
C8_TotalInternalReflection ==
    Sampled("Refract") =>
        /\ (call.ret.branch = "reflect") <=> BeyondCritical(call.wo)
        /\ BeyondCritical(call.wo) =>
              /\ call.ret.wi = Mirror(call.wo)
              /\ call.ret.pdf = call.ret.re
              /\ call.ret.re = One
              /\ call.ret.value =
                    VDiv(VScale(bsdf.r_, call.ret.re), Abs(call.ret.wi[3]))
        /\ ~BeyondCritical(call.wo) =>
              /\ call.ret.branch = "refract"
              /\ call.ret.pdf = Sub(One, call.ret.re)

C8_Witness ==
    /\ Sampled("Refract")
    /\ BeyondCritical(call.wo)
    /\ call.ret.branch = "reflect"
    /\ call.wo[3] # Zero
    /\ call.wo[1] # Zero

\* C9: DiffuseBSDF::F is reflectance / pi for every pair of directions;
\* DiffuseBSDF::SampleF returns wi with wi.z >= 0, pdf = wi.z / pi >= 0 and
\* the value F(wo, wi), for every pair of uniform draws.
C9_Diffuse ==
    /\ (call.op = "F" /\ bsdf.kind = "Diffuse") => call.ret = VDiv(bsdf.r_, PI)
    /\ Sampled("Diffuse") =>
          /\ Ge(call.ret.wi[3], Zero)
          /\ call.ret.pdf = Div(call.ret.wi[3], PI)
          /\ Ge(call.ret.pdf, Zero)
          /\ call.ret.value = VDiv(bsdf.r_, PI)
          /\ call.ret.value = DiffuseF(bsdf.r_, call.wo, call.ret.wi)

C9_Witness ==
    /\ Sampled("Diffuse")
    /\ call.ua # Zero
    /\ call.ub # Zero
    /\ call.ret.wi[1] # Zero
    /\ call.ret.wi[2] # Zero
    /\ Lt(Zero, call.ret.pdf)

\* C10: the re computed inside RefractBSDF::SampleF equals
\* FresnelDielectric(|wo.z|, etaIncident, etaTransmitted), and the sampler
\* reflects exactly when FresnelDielectric's test sint >= 1 succeeds.
C10_InlineFresnelAgrees ==
    Sampled("Refract") =>
        /\ call.ret.re = FresnelDielectric(Abs(call.wo[3]), EtaIncident(call.wo),
                                           EtaTransmitted(call.wo))
        /\ (call.ret.branch = "reflect") <=>
              Ge(FresnelSinT(Abs(call.wo[3]), EtaIncident(call.wo),
                             EtaTransmitted(call.wo)), One)

C10_Witness ==
    /\ Sampled("Refract")
    /\ call.ret.branch = "refract"
    /\ call.wo[3] # One
    /\ call.wo[3] # Q(0 - 1, 1)
    /\ Lt(Zero, call.ret.re)
    /\ Lt(call.ret.re, One)

====
